---- MODULE Spec2Model ----
(***************************************************************************)
(* The keyword filter of src/utils/keywordfilter.py: one Filter object     *)
(* (the model lifecycle manager), the artifact store ../models/ it reads   *)
(* and writes, and the POS-tag histogram encoding used by train() and      *)
(* predict().  The tagger (spaCy) and the gradient-boosting library        *)
(* (xgboost) are external: the tagger is a table from phrase to tag        *)
(* sequence, a score is the pair (training run of the model, feature row). *)
(***************************************************************************)
EXTENDS Integers, Sequences, FiniteSets, TLC

\* ------------------------------------------------------------------ bounds
MaxRuns == 2          \* train() calls that reach the DMatrix construction
MaxKeywords == 2      \* length of a keyword list passed to predict()

\* ------------------------------------------------------- tag vocabulary
\* spacy.glossary.GLOSSARY.keys(), in order, up to the first English tag.
GLOSSARY ==
  << "ADJ", "ADP", "ADV", "AUX", "CONJ", "CCONJ", "DET", "INTJ", "NOUN",
     "NUM", "PART", "PRON", "PROPN", "PUNCT", "SCONJ", "SYM", "VERB", "X",
     "EOL", "SPACE", "." >>

\* tags.index("X"), 0-based as in Python.
IndexOfX == (CHOOSE i \in 1..Len(GLOSSARY) : GLOSSARY[i] = "X") - 1

\* self.tags: the simple tags, plus "WORDCOUNT" when include_wordlength.
tags(incl) ==
  LET simple == SubSeq(GLOSSARY, 1, IndexOfX + 1)
  IN  IF incl THEN Append(simple, "WORDCOUNT") ELSE simple

\* self.tagmap: built over the WHOLE glossary list (the local `tags`), not
\* over self.tags.  Python indices, 0-based.
tagmapHas(tag) == \E i \in 1..Len(GLOSSARY) : GLOSSARY[i] = tag

tagmap(tag) == (CHOOSE i \in 1..Len(GLOSSARY) : GLOSSARY[i] = tag) - 1

\* --------------------------------------------------------------- tagger
\* self.nlp(kw): the pos_ of each token.  An opaque, deterministic table.
\* Whitespace runs are tokens tagged SPACE; "" is the tag of an untagged
\* token.
Phrases ==
  { "", "okay", "good battery life", "customer  support", "end<EOL>", "n/a" }

nlp(kw) ==
  CASE kw = ""                  -> << >>
    [] kw = "okay"              -> << "INTJ" >>
    [] kw = "good battery life" -> << "ADJ", "NOUN", "NOUN" >>
    [] kw = "customer  support" -> << "NOUN", "SPACE", "NOUN" >>
    [] kw = "end<EOL>"          -> << "NOUN", "EOL" >>
    [] kw = "n/a"               -> << "" >>

\* ------------------------------------------------------ feature encoder
\* np.zeros((1, len(self.tags)))
zeros(n) == [j \in 1..n |-> 0]

\* The inner loop of train() (lines 54-58) and predict() (lines 105-109),
\* from token i on.  Column c of the numpy row is vec[c + 1]; column -1 is
\* vec[Len(vec)].
RECURSIVE EncodeFrom(_, _, _, _)
EncodeFrom(vec, toks, i, incl) ==
  IF i > Len(toks) THEN [err |-> "none", vec |-> vec]
  ELSE IF ~tagmapHas(toks[i]) THEN [err |-> "KeyError", vec |-> vec]
  ELSE LET idx == tagmap(toks[i])
       IN  IF idx >= Len(vec) THEN [err |-> "IndexError", vec |-> vec]
           ELSE LET v1 == [vec EXCEPT ![idx + 1] = @ + 1]
                    v2 == IF incl THEN [v1 EXCEPT ![Len(v1)] = @ + 1] ELSE v1
                IN  EncodeFrom(v2, toks, i + 1, incl)

Encode(kw, incl) == EncodeFrom(zeros(Len(tags(incl))), nlp(kw), 1, incl)

\* Every phrase, encoded once.
Encoded == [incl \in BOOLEAN |-> [kw \in Phrases |-> Encode(kw, incl)]]

\* The outer loops (lines 53 and 103): rows in input order; the first
\* exception ends the call and no matrix is built.
RECURSIVE BuildMatrix(_, _, _)
BuildMatrix(kws, incl, acc) ==
  IF kws = << >> THEN [err |-> "none", rows |-> acc]
  ELSE LET e == Encoded[incl][Head(kws)]
       IN  IF e.err # "none" THEN [err |-> e.err, rows |-> << >>]
           ELSE BuildMatrix(Tail(kws), incl, Append(acc, e.vec))

\* ------------------------------------------------------ values of state
NoneValue == [kind |-> "None"]

\* xgb.Booster(): a booster with no trees (line 77).
EmptyBooster == [kind |-> "empty"]

\* xgb.train(params, dtrain) (line 65).
TrainedBooster(dm) ==
  [kind |-> "trained", run |-> dm.run, width |-> dm.width, fromFile |-> FALSE]

\* bst.save_model(path) (line 66): the file keeps the trees and their width.
SavedModel(b) == [kind |-> "model", run |-> b.run, width |-> b.width]

\* A load that leaves the fresh Booster of line 77 as it is.
LoadedBoosterUnread(file) == [kind |-> "empty"]

\* Booster.load_model(path) (line 78) on a readable file.
LoadedBooster(file) ==
  [kind |-> "trained", run |-> file.run, width |-> file.width, fromFile |-> TRUE]

\* xgb.DMatrix(data=matrix, label=labels, feature_names=self.tags) (line 60)
NewDMatrix(run, matrix, incl) ==
  [kind |-> "dmatrix", run |-> run, width |-> Len(tags(incl)),
   nrows |-> Len(matrix), fromFile |-> FALSE]

\* dtrain.save_binary(path) (line 61).
SavedBuffer(dm) ==
  [kind |-> "buffer", run |-> dm.run, width |-> dm.width, nrows |-> dm.nrows]

\* xgb.DMatrix(path) (lines 79-81) on a readable file.
LoadedDMatrix(file) ==
  [kind |-> "dmatrix", run |-> file.run, width |-> file.width,
   nrows |-> file.nrows, fromFile |-> TRUE]

Missing == [kind |-> "missing"]

VARIABLES
  bst,                 \* self.bst
  dtrain,              \* self.dtrain
  include_wordlength,  \* self.include_wordlength
  store,               \* ../models/: keywordfilter.model, keywordfilter.buffer
  runs,                \* training runs started by this Filter
  fresh,               \* no train() call and no successful load_model() yet
  last,                \* the call that has just returned: its arguments and
                       \* result; "none" once the caller has gone on
  prev                 \* the call (or outside event) before that one

vars == << bst, dtrain, include_wordlength, store, runs, fresh, last, prev >>

Summary(call) == [op |-> call.op, ok |-> call.ok]

Idle == [op |-> "none", ok |-> TRUE]

\* ----------------------------------------------------------------- Init
\* Filter.__init__ (lines 15-32).  The artifact store is empty or holds the
\* pair an earlier process wrote (run 0), with either setting of
\* include_wordlength.
EarlierArtifacts(incl) ==
  [model  |-> [kind |-> "model", run |-> 0, width |-> Len(tags(incl))],
   buffer |-> [kind |-> "buffer", run |-> 0, width |-> Len(tags(incl)),
               nrows |-> 2]]

Init ==
  /\ bst = NoneValue
  /\ dtrain = NoneValue
  /\ include_wordlength \in BOOLEAN
  /\ store \in {[model |-> Missing, buffer |-> Missing]}
               \cup {EarlierArtifacts(w) : w \in BOOLEAN}
  /\ runs = 0
  /\ fresh = TRUE
  /\ last = Idle
  /\ prev = [op |-> "init", ok |-> TRUE]

\* ------------------------------------------------------------ load_model
\* Filter.load_model (lines 70-85).  self.bst is replaced by an empty
\* Booster BEFORE the file is read; XGBoostError is caught, the error line
\* is printed and None is returned, with whatever was assigned so far.
LoadModel ==
  LET modelOk  == store.model.kind = "model"
      bufferOk == store.buffer.kind = "buffer"
      ok       == modelOk /\ bufferOk
  IN  /\ last = Idle
      /\ bst' = IF modelOk THEN LoadedBooster(store.model) ELSE EmptyBooster
      /\ dtrain' = IF ok THEN LoadedDMatrix(store.buffer) ELSE dtrain
      /\ fresh' = (fresh /\ ~ok)
      /\ last' = [op |-> "load", ok |-> ok,
                  returned |-> IF ok THEN "bst" ELSE "None",
                  printed |-> IF ok THEN "" ELSE "ERROR: There is no pretrained model"]
      /\ UNCHANGED << include_wordlength, store, runs, prev >>

\* ----------------------------------------------------------------- train
\* filter_train.csv after the header row (lines 41-45): (phrase, label).
Datasets ==
  { << [phrase |-> "good battery life", label |-> "1"],
       [phrase |-> "okay", label |-> "0"] >>,
    << [phrase |-> "okay", label |-> "0"] >>,
    << [phrase |-> "good battery life", label |-> "1"],
       [phrase |-> "customer  support", label |-> "1"] >>,
    << [phrase |-> "end<EOL>", label |-> "1"] >>,
    << [phrase |-> "n/a", label |-> "0"] >>,
    << [phrase |-> "okay", label |-> "yes"] >> }

\* Lines 47-48 and 149-150: bool(int(label)) and the phrase column.
ParseRows(csv) ==
  IF \E i \in 1..Len(csv) : csv[i].label \notin {"0", "1"}
  THEN [err |-> "ValueError", data |-> << >>, labels |-> << >>]
  ELSE [err |-> "none",
        data |-> [i \in 1..Len(csv) |-> csv[i].phrase],
        labels |-> [i \in 1..Len(csv) |-> csv[i].label = "1"]]

\* Filter.train (lines 34-68).  The buffer is written before the model is
\* fitted; xgb.train may raise (self.params is the caller's), and then the
\* model file is not written and self.bst is not assigned.
Train ==
  /\ last = Idle
  /\ runs < MaxRuns
  /\ \E csv \in Datasets, fit \in {"ok", "raises"} :
       LET parsed == ParseRows(csv)
           m      == BuildMatrix(parsed.data, include_wordlength, << >>)
           dm     == NewDMatrix(runs + 1, m.rows, include_wordlength)
           b      == TrainedBooster(dm)
       IN  IF parsed.err # "none" \/ m.err # "none"
           THEN /\ last' = [op |-> "train", ok |-> FALSE, data |-> parsed.data,
                            raised |-> IF parsed.err # "none" THEN parsed.err
                                       ELSE m.err,
                            matrix |-> << >>]
                /\ UNCHANGED << bst, dtrain, store, runs >>
           ELSE /\ dtrain' = dm
                /\ runs' = runs + 1
                /\ IF fit = "raises"
                   THEN /\ store' = [store EXCEPT !.buffer = SavedBuffer(dm)]
                        /\ UNCHANGED bst
                        /\ last' = [op |-> "train", ok |-> FALSE,
                                    data |-> parsed.data,
                                    raised |-> "XGBoostError",
                                    matrix |-> m.rows]
                   ELSE /\ store' = [model |-> SavedModel(b),
                                     buffer |-> SavedBuffer(dm)]
                        /\ bst' = b
                        /\ last' = [op |-> "train", ok |-> TRUE,
                                    data |-> parsed.data, raised |-> "none",
                                    matrix |-> m.rows]
  /\ fresh' = FALSE
  /\ UNCHANGED << include_wordlength, prev >>

\* --------------------------------------------------------------- predict
RECURSIVE SeqsUpTo(_, _)
SeqsUpTo(S, n) ==
  IF n = 0 THEN { << >> }
  ELSE LET shorter == SeqsUpTo(S, n - 1)
       IN  shorter \cup { Append(q, x) : q \in shorter, x \in S }

\* What a caller passes as `keywords`: one string, or a list of strings.
PredictArgs ==
  { [isStr |-> TRUE, text |-> p] : p \in Phrases }
    \cup { [isStr |-> FALSE, list |-> l] : l \in SeqsUpTo(Phrases, MaxKeywords) }

\* Lines 98-99: a single str is wrapped into a list.
Keywords(arg) == IF arg.isStr THEN << arg.text >> ELSE arg.list

\* The trees a booster scores with: its training run, -1 for no trees.
ModelId(b) == IF b.kind = "trained" THEN b.run ELSE -1

\* xgb.DMatrix(matrix, feature_names=self.tags) and self.bst.predict(data)
\* (lines 112-114).  The matrix is handed to the booster whatever its
\* width; with no trees or another number of features the library either
\* raises or scores anyway, depending on its version (lib).
Fits(b, width) == b.kind = "trained" /\ b.width = width

LibChoices(b, incl) ==
  IF b = NoneValue \/ Fits(b, Len(tags(incl))) THEN {"scores"}
  ELSE {"raises", "scores"}

BoosterPredict(b, matrix, width, lib) ==
  IF ~Fits(b, width) /\ lib = "raises"
      THEN [kind |-> "XGBoostError", model |-> b, matrix |-> matrix]
      ELSE [kind |-> "scores", model |-> b, matrix |-> matrix,
            scores |-> [i \in 1..Len(matrix) |->
                          [trees |-> ModelId(b), row |-> matrix[i]]]]

\* Filter.predict (lines 87-114) as a function of the object's fields.
PredictResult(b, incl, arg, lib) ==
  IF b = NoneValue
  THEN [kind |-> "None", printed |-> "ERROR: Model is not trained."]
  ELSE LET m == BuildMatrix(Keywords(arg), incl, << >>)
       IN  IF m.err # "none" THEN [kind |-> m.err]
           ELSE BoosterPredict(b, m.rows, Len(tags(incl)), lib)

Predict ==
  /\ last = Idle
  /\ \E arg \in PredictArgs, lib \in LibChoices(bst, include_wordlength) :
       LET r == PredictResult(bst, include_wordlength, arg, lib)
       IN  last' = [op |-> "predict", ok |-> r.kind = "scores", arg |-> arg,
                    result |-> r]
  /\ UNCHANGED << bst, dtrain, include_wordlength, store, runs, fresh, prev >>

\* -------------------------------------------------------------------- cv
\* Filter.cv (lines 116-129): guarded by self.dtrain alone.
Cv ==
  /\ last = Idle
  /\ last' = IF dtrain = NoneValue
             THEN [op |-> "cv", ok |-> FALSE,
                   printed |-> "ERROR: Model is not trained"]
             ELSE [op |-> "cv", ok |-> TRUE, printed |-> "Results", nfold |-> 5,
                   data |-> dtrain]
  /\ UNCHANGED << bst, dtrain, include_wordlength, store, runs, fresh, prev >>

\* ---------------------------------------------------- classification_eval
\* Scores and thresholds in tenths.
DefaultThreshold == 3

Thresholds == { DefaultThreshold, 5 }

ScoreValues == { 0, 3, 10 }

Count(S) == Cardinality(S)

\* Lines 157-195.  A fraction is <<numerator, denominator>>; Python raises
\* ZeroDivisionError on a zero denominator, int or float.
Metrics(labels, cls) ==
  LET n  == Len(labels)
      TP == Count({i \in 1..n : labels[i] /\ cls[i]})
      FP == Count({i \in 1..n : ~labels[i] /\ cls[i]})
      TN == Count({i \in 1..n : ~labels[i] /\ ~cls[i]})
      FN == Count({i \in 1..n : labels[i] /\ ~cls[i]})
      counts == [TP |-> TP, FP |-> FP, TN |-> TN, FN |-> FN]
  IN  IF TP + FP = 0
      THEN [kind |-> "ZeroDivisionError", at |-> "precision", counts |-> counts]
      ELSE IF TP + FN = 0
      THEN [kind |-> "ZeroDivisionError", at |-> "recall", counts |-> counts]
      ELSE IF TP = 0
      THEN [kind |-> "ZeroDivisionError", at |-> "f1_score", counts |-> counts]
      ELSE [kind |-> "metrics", counts |-> counts,
            precision |-> << TP, TP + FP >>,
            recall    |-> << TP, TP + FN >>,
            f1_score  |-> << 2 * TP, 2 * TP + FP + FN >>,
            accuracy  |-> << TP + TN, n >>]

\* Filter.classification_eval (lines 131-195): guarded by self.dtrain, not
\* by self.bst; the scores come from self.predict(data).
EvalPredictions(b, incl, csv, lib) ==
  PredictResult(b, incl, [isStr |-> FALSE, list |-> ParseRows(csv).data], lib)

\* The rows the booster is asked to score; f gives each its score.
RowsScored(r) ==
  IF r.kind = "scores" THEN {r.matrix[i] : i \in 1..Len(r.matrix)} ELSE {}

EvalResult(b, incl, csv, threshold, lib, f) ==
  LET parsed == ParseRows(csv)
      r      == EvalPredictions(b, incl, csv, lib)
  IN  IF parsed.err # "none" THEN [kind |-> parsed.err]
      ELSE IF r.kind = "None" THEN [kind |-> "TypeError"]
      ELSE IF r.kind # "scores" THEN [kind |-> r.kind]
      ELSE Metrics(parsed.labels,
                   [i \in 1..Len(r.matrix) |-> f[r.matrix[i]] >= threshold])

ClassificationEval ==
  /\ last = Idle
  /\ IF dtrain = NoneValue
     THEN last' = [op |-> "eval", ok |-> FALSE,
                   result |-> [kind |-> "None",
                               printed |-> "ERROR: Model is not trained"]]
     ELSE \E csv \in Datasets, threshold \in Thresholds,
             lib \in LibChoices(bst, include_wordlength) :
            \E f \in [RowsScored(EvalPredictions(bst, include_wordlength, csv,
                                                  lib)) -> ScoreValues] :
              LET r == EvalResult(bst, include_wordlength, csv, threshold,
                                  lib, f)
              IN  last' = [op |-> "eval", ok |-> r.kind = "metrics",
                           threshold |-> threshold, result |-> r]
  /\ UNCHANGED << bst, dtrain, include_wordlength, store, runs, fresh, prev >>

\* ------------------------------------------------------------ environment
\* A file of ../models/ removed or made unreadable from outside.
ArtifactLost(f) ==
  /\ last = Idle
  /\ store[f] # Missing
  /\ store' = [store EXCEPT ![f] = Missing]
  /\ prev' = [op |-> "lost", ok |-> TRUE]
  /\ UNCHANGED << bst, dtrain, include_wordlength, runs, fresh, last >>

\* ------------------------------------------------------------------ caller
\* The call has returned; the caller goes on to its next call (the driver,
\* lines 199-218).  Nothing of the Filter changes.
Continue ==
  /\ last # Idle
  /\ prev' = Summary(last)
  /\ last' = Idle
  /\ UNCHANGED << bst, dtrain, include_wordlength, store, runs, fresh >>

\* ---------------------------------------------------------- specifications
Next == Train \/ LoadModel \/ Predict \/ Cv \/ ClassificationEval \/ Continue

Spec == Init /\ [][Next]_vars

NextEnv == Next \/ \E f \in {"model", "buffer"} : ArtifactLost(f)

SpecEnv == Init /\ [][NextEnv]_vars

\* ================================================================ claims
\* The simple-tag vocabulary (without the WORDCOUNT column).
Vocabulary == {GLOSSARY[i] : i \in 1..(IndexOfX + 1)}

VocabularyTokens(kw) == {i \in 1..Len(nlp(kw)) : nlp(kw)[i] \in Vocabulary}

HasUnknownTag(kw) == \E i \in 1..Len(nlp(kw)) : nlp(kw)[i] \notin Vocabulary

RECURSIVE SumCols(_, _)
SumCols(row, n) == IF n = 0 THEN 0 ELSE row[n] + SumCols(row, n - 1)

\* The histogram the specification asks for: one count per vocabulary tag,
\* other tags ignored, and the total number of tokens in the last column.
Histogram(kw, incl) ==
  [j \in 1..Len(tags(incl)) |->
     IF j <= IndexOfX + 1
     THEN Cardinality({i \in 1..Len(nlp(kw)) : nlp(kw)[i] = GLOSSARY[j]})
     ELSE Len(nlp(kw))]

\* The phrases a call encoded, and the matrix it built (<< >> if none).
EncodingCall ==
  \/ last.op = "predict" /\ last.result.kind # "None"
  \/ last.op = "train" /\ last.raised # "ValueError"

PhrasesOf(call) == IF call.op = "predict" THEN Keywords(call.arg) ELSE call.data

RaisedBy(call) == IF call.op = "predict" THEN call.result.kind ELSE call.raised

MatrixOf(call) ==
  IF call.op = "train" THEN call.matrix
  ELSE IF "matrix" \in DOMAIN call.result THEN call.result.matrix
  ELSE << >>

Ready == bst.kind = "trained"

FailedLoad == [op |-> "load", ok |-> FALSE]

TrainedOk == [op |-> "train", ok |-> TRUE]

\* C1: a predict() issued right after a failed load_model() on a Filter that
\* was never trained and never loaded reports "model is not trained" and
\* runs no inference.
C1_FailedLoadStaysAbsent ==
  (last.op = "predict" /\ prev = FailedLoad /\ fresh)
    => last.result.kind = "None"

\* C2: predict() before any train() and before any successful load_model()
\* reports "model is not trained", returns no scores, and self.bst and
\* self.dtrain are both still None.
C2_PredictBeforeReady ==
  (last.op = "predict" /\ fresh)
    => /\ last.result.kind = "None"
       /\ bst = NoneValue
       /\ dtrain = NoneValue

\* C3: once self.bst is a trained model it stays one, whatever is called
\* and whatever happens to the artifact files; predict() and cv() change no
\* field of the Filter and no file.
C3_ReadyIsKept ==
  [][ /\ Ready => bst'.kind = "trained"
      /\ (last = Idle /\ last'.op \in {"predict", "cv"})
           => UNCHANGED << bst, dtrain, include_wordlength, store >> ]_vars

\* C4: the model a Filter holds always has the Filter's own number of
\* columns, so load_model() does not make Ready a Filter whose
\* include_wordlength differs from the writer's, and every matrix handed to
\* a trained model has that model's width.
C4_WidthChecked ==
  /\ Ready => bst.width = Len(tags(include_wordlength))
  /\ (last.op = "predict" /\ "matrix" \in DOMAIN last.result
        /\ last.result.model.kind = "trained")
       => \A i \in 1..Len(last.result.matrix) :
            Len(last.result.matrix[i]) = last.result.model.width

\* C5: when a phrase has a token whose tag is outside the simple-tag
\* vocabulary, train() and predict() raise no KeyError or IndexError and
\* build the rows that ignore that tag: no vocabulary column counts it and
\* the word-count column is not used in its place.
C5_UnknownTagsIgnored ==
  (EncodingCall /\ \E i \in 1..Len(PhrasesOf(last)) :
                      HasUnknownTag(PhrasesOf(last)[i]))
    => /\ RaisedBy(last) \notin {"KeyError", "IndexError"}
       /\ Len(MatrixOf(last)) = Len(PhrasesOf(last))
       /\ \A i \in 1..Len(MatrixOf(last)) :
            MatrixOf(last)[i] = Histogram(PhrasesOf(last)[i], include_wordlength)

\* C6: in every row train() or predict() builds, the vocabulary columns sum
\* to the number of tokens whose tag is in the vocabulary and, with
\* include_wordlength, the last column is the number of tokens of the
\* phrase.
C6_WordCountIsTokenCount ==
  EncodingCall
    => \A i \in 1..Len(MatrixOf(last)) :
         LET row == MatrixOf(last)[i]
             kw  == PhrasesOf(last)[i]
         IN  /\ SumCols(row, IndexOfX + 1) = Cardinality(VocabularyTokens(kw))
             /\ include_wordlength => row[Len(row)] = Len(nlp(kw))

\* C7: classification_eval() that gets as far as the confusion counts
\* raises nothing; a metric with a zero denominator is reported as
\* "undefined".
C7_UndefinedMetrics ==
  (last.op = "eval" /\ "counts" \in DOMAIN last.result)
    => LET c == last.result.counts
       IN  /\ last.result.kind = "metrics"
           /\ c.TP + c.FP = 0 => last.result.precision = "undefined"
           /\ c.TP + c.FN = 0 => last.result.recall = "undefined"
           /\ c.TP = 0 => last.result.f1_score = "undefined"

\* What the caller of predict() sees.
Outcome(r) == IF r.kind = "scores" THEN r.scores ELSE r.kind

\* C8: a load_model() called right after a successful train(), nothing
\* having touched the artifact files in between, succeeds and leaves
\* self.bst the model and self.dtrain the matrix that train() wrote, and
\* predict() gives for every argument what it gave before the load.
C8_RoundTrip ==
  [][ (last = Idle /\ prev = TrainedOk /\ last'.op = "load")
        => /\ last'.ok
           /\ bst'.kind = "trained"
           /\ SavedModel(bst') = SavedModel(bst)
           /\ SavedModel(bst') = store.model
           /\ dtrain'.kind = "dmatrix"
           /\ SavedBuffer(dtrain') = SavedBuffer(dtrain)
           /\ SavedBuffer(dtrain') = store.buffer
           /\ \A arg \in PredictArgs :
                \A lib \in LibChoices(bst, include_wordlength) :
                  Outcome(PredictResult(bst', include_wordlength, arg, lib))
                    = Outcome(PredictResult(bst, include_wordlength, arg, lib))
    ]_vars

C8_Witness ==
  /\ last.op = "load" /\ last.ok
  /\ prev = TrainedOk
  /\ bst.kind = "trained" /\ bst.fromFile /\ bst.run = runs /\ runs >= 1
  /\ dtrain.fromFile

\* C9: with a trained model of the Filter's own width, predict() returns one
\* score per phrase, in input order, each for the row of that phrase; a
\* single string gives the one-row matrix of the one-element list, and the
\* empty phrase an all-zero row.
C9_OneScorePerPhrase ==
  (last.op = "predict" /\ Ready /\ bst.width = Len(tags(include_wordlength)))
    => LET kws == Keywords(last.arg)
       IN  /\ last.result.kind = "scores"
           /\ Len(last.result.scores) = Len(kws)
           /\ \A i \in 1..Len(kws) :
                /\ last.result.scores[i].row = last.result.matrix[i]
                /\ last.result.matrix[i]
                     = Histogram(kws[i], include_wordlength)
           /\ last.arg.isStr
                => Outcome(last.result)
                     = Outcome(PredictResult(bst, include_wordlength,
                                  [isStr |-> FALSE, list |-> << last.arg.text >>],
                                  "scores"))

\* C10: after any train() and load_model() calls, self.bst and self.dtrain
\* are both without a trained artifact or both from one training run, and
\* so are the two files of the store.
C10_PairsFromOneRun ==
  /\ \/ bst.kind \in {"None", "empty"} /\ dtrain = NoneValue
     \/ Ready /\ dtrain.kind = "dmatrix" /\ bst.run = dtrain.run
  /\ \/ store.model = Missing /\ store.buffer = Missing
     \/ /\ store.model.kind = "model"
        /\ store.buffer.kind = "buffer"
        /\ store.model.run = store.buffer.run
====
